---- MODULE Spec2Model ----
(***************************************************************************)
(* Model of src/src/notifications.rs: the image-descriptor validator       *)
(* serialize_image, the TrustedStr wrapper and send_notification with the  *)
(* org.freedesktop.Notifications transport it calls.                       *)
(*                                                                         *)
(* The program keeps no state between calls.  The state of the model is    *)
(* one call of each function: its arguments, the point it has reached, the *)
(* calls it made to the transport and the value it returned.               *)
(***************************************************************************)
EXTENDS Integers, Sequences, FiniteSets

VARIABLES
    img,        \* arguments of the serialize_image call
    imgpc,      \* "start" before the call, "done" after it returned
    imgret,     \* what serialize_image returned (NoResult before)
    req,        \* arguments of the send_notification call
    pc,         \* "start", "awaiting" (inside notify(...).await), "done"
    notified,   \* the notify calls received by the transport, in order
    reply,      \* what the transport answered (NoReply before)
    ret         \* what send_notification returned (NoReply before)

vars == <<img, imgpc, imgret, req, pc, notified, reply, ret>>

(***************************************************************************)
(* Machine integers.  i32 values are plain integers in I32Min..I32Max.     *)
(* A usize is kept as two limbs, value = hi * 2^16 + lo, so that buffer    *)
(* lengths beyond the i32 range can be written down and cast.              *)
(***************************************************************************)
I32Max == 2147483647
I32Min == -I32Max - 1
Limb == 2^16

Usize(h, l) == [hi |-> h, lo |-> l]

\* n as usize, for 0 <= n <= I32Max
ToUsize(n) == Usize(n \div Limb, n % Limb)

\* a > b on usize
UsizeGt(a, b) == a.hi > b.hi \/ (a.hi = b.hi /\ a.lo > b.lo)

\* `u as i32`: keep the low 32 bits, read them as two's complement
AsI32(u) ==
    LET h16 == u.hi % Limb
    IN  IF h16 >= 32768 THEN (h16 - Limb) * Limb + u.lo
                        ELSE h16 * Limb + u.lo

\* `b as i32`
BoolAsI32(b) == IF b THEN 1 ELSE 0

\* a division that rounds a positive inexact quotient up
DivI32_roundup(a, b) ==
    IF b = 0 \/ (a = I32Min /\ b = -1) THEN [panic |-> TRUE, q |-> 0]
    ELSE IF a > 0 /\ b > 0 /\ a % b # 0
    THEN [panic |-> FALSE, q |-> (a \div b) + 1]
    ELSE IF b > 0 THEN [panic |-> FALSE, q |-> a \div b]
    ELSE [panic |-> FALSE, q |-> 0]

\* i32 `/`: panics on a zero divisor and on MIN / -1, truncates toward zero
\* (\div rounds down, so a negative inexact quotient is one more than \div)
TruncDivPos(a, b) ==
    IF a < 0 /\ a % b # 0 THEN (a \div b) + 1 ELSE a \div b

DivI32(a, b) ==
    IF b = 0 \/ (a = I32Min /\ b = -1) THEN [panic |-> TRUE, q |-> 0]
    ELSE IF b > 0 THEN [panic |-> FALSE, q |-> TruncDivPos(a, b)]
    ELSE IF b = I32Min THEN [panic |-> FALSE, q |-> IF a = I32Min THEN 1 ELSE 0]
    ELSE [panic |-> FALSE, q |-> -TruncDivPos(a, -b)]

(***************************************************************************)
(* Constants of the validator.                                             *)
(***************************************************************************)
MAX_SIZE == 2097152
MAX_WIDTH == 255
MAX_HEIGHT == 255

(***************************************************************************)
(* serialize_image.  A byte buffer is [len, tag]: its length (a usize) and *)
(* a tag standing for its contents, which the function never reads.        *)
(* The result carries, besides Ok(value) / Err(reason) / a panic, the      *)
(* arithmetic the call evaluated, in order: the addition of line 65, the   *)
(* cast and the division of line 75, the division of line 79.              *)
(***************************************************************************)
NoValue == << >>
NoWide == Usize(0, 0)

\* one evaluated arithmetic step: "add" x + y, "div" x / y, or "cast"
\* `wide as i32` giving x
Arith(op, wide, x, y) == [op |-> op, wide |-> wide, x |-> x, y |-> y]

Ok(value, arith) ==
    [kind |-> "Ok", err |-> "", value |-> value, arith |-> arith]
Err(reason, arith) ==
    [kind |-> "Err", err |-> reason, value |-> NoValue, arith |-> arith]
Panicked(arith) ==
    [kind |-> "Panic", err |-> "", value |-> NoValue, arith |-> arith]

\* the first check without its row stride part
TooSmall_nostride(untrusted_width, untrusted_height, untrusted_rowstride) ==
    untrusted_width < 1 \/ untrusted_height < 1

\* line 51
TooSmall(untrusted_width, untrusted_height, untrusted_rowstride) ==
    untrusted_width < 1 \/ untrusted_height < 1 \/ untrusted_rowstride < 3

\* the size check off by one
TooMuchData_offbyone(untrusted_data) ==
    UsizeGt(untrusted_data.len, ToUsize(MAX_SIZE + 1))

\* the size check left out
TooMuchData_unchecked(untrusted_data) == FALSE

\* line 55
TooMuchData(untrusted_data) ==
    UsizeGt(untrusted_data.len, ToUsize(MAX_SIZE))

\* line 65
Channels(untrusted_has_alpha) == 3 + BoolAsI32(untrusted_has_alpha)

\* the dimension check with >= for >
TooLarge_strict(untrusted_width, untrusted_height) ==
    untrusted_width >= MAX_WIDTH \/ untrusted_height >= MAX_HEIGHT

\* line 71
TooLarge(untrusted_width, untrusted_height) ==
    untrusted_width > MAX_WIDTH \/ untrusted_height > MAX_HEIGHT

serialize_image(untrusted_width, untrusted_height, untrusted_rowstride, untrusted_has_alpha, untrusted_bits_per_sample, untrusted_channels, untrusted_data) ==
    LET has_alpha == untrusted_has_alpha
        bits_per_sample == untrusted_bits_per_sample
        data == untrusted_data
        channels == Channels(untrusted_has_alpha)
        len_i32 == AsI32(untrusted_data.len)
        rows == DivI32(len_i32, untrusted_height)
        pixels == DivI32(untrusted_rowstride, channels)
        height == untrusted_height
        width == untrusted_width
        rowstride == untrusted_rowstride
        a65 == << Arith("add", NoWide, 3, BoolAsI32(untrusted_has_alpha)) >>
        a75 == a65 \o << Arith("cast", untrusted_data.len, len_i32, 0),
                         Arith("div", NoWide, len_i32, untrusted_height) >>
        a79 == a75 \o << Arith("div", NoWide, untrusted_rowstride, channels) >>
    IN  IF TooSmall(untrusted_width, untrusted_height, untrusted_rowstride)
        THEN Err("Too small width, height, or stride", << >>)
        ELSE IF TooMuchData(untrusted_data)
        THEN Err("Too much data", << >>)
        ELSE IF untrusted_bits_per_sample # 8
        THEN Err("Wrong number of bits per sample", << >>)
        ELSE IF untrusted_channels # channels
        THEN Err("Wrong number of channels", a65)
        ELSE IF TooLarge(untrusted_width, untrusted_height)
        THEN Err("Width or height too large", a65)
        ELSE IF rows.panic THEN Panicked(a75)
        ELSE IF rows.q < untrusted_rowstride
        THEN Err("Image too large", a75)
        ELSE IF pixels.panic THEN Panicked(a79)
        ELSE IF pixels.q < untrusted_width
        THEN Err("Row stride too small", a79)
        ELSE Ok(<<width, height, rowstride, has_alpha, bits_per_sample,
                  channels, data>>, a79)

(***************************************************************************)
(* TrustedStr: a wrapper around a String; new wraps, inner unwraps.        *)
(***************************************************************************)
\* a wrapper that drops what follows the first character
TrustedStr_new_cut(arg) == [str0 |-> IF arg = "" THEN "" ELSE "?"]

TrustedStr_new(arg) == [str0 |-> arg]

TrustedStr_inner(self) == self.str0

(***************************************************************************)
(* send_notification.  Option<T> is [some, v]; a zbus::Result<u32> is      *)
(* [kind, id, err]; a zvariant Value made from a &u8 is [type, v].         *)
(***************************************************************************)
None(placeholder) == [some |-> FALSE, v |-> placeholder]
Some(x) == [some |-> TRUE, v |-> x]

OkId(id) == [kind |-> "Ok", id |-> id, err |-> ""]
ErrZbus(e) == [kind |-> "Err", id |-> 0, err |-> e]
NoReply == [kind |-> "None", id |-> 0, err |-> ""]

U8Value(n) == [type |-> "u8", v |-> n]

\* the codes shifted by one
UrgencyCode_shifted(urgency) ==
    CASE urgency = "Low" -> 1
      [] urgency = "Normal" -> 2
      [] urgency = "Critical" -> 3

\* lines 151-155, with the discriminants of lines 29-34
UrgencyCode(urgency) ==
    CASE urgency = "Low" -> 0
      [] urgency = "Normal" -> 1
      [] urgency = "Critical" -> 2

\* lines 149-160
Hints(urgency) ==
    IF urgency.some
    THEN [k \in {"urgency"} |-> U8Value(UrgencyCode(urgency.v))]
    ELSE [k \in {} |-> U8Value(0)]

\* line 147
FlattenActions(actions) == [i \in 1..Len(actions) |-> actions[i].str0]

\* a check that also refuses -1
TimeoutUnsupported_nodefault(expire_timeout) == expire_timeout < 0

\* line 132
TimeoutUnsupported(expire_timeout) == expire_timeout < -1

\* the arguments of one call of the transport's notify (lines 10-20)
NotifyCall(app_name, replaces_id, app_icon, summary, body, actions, hints, expire_timeout) ==
    [app_name |-> app_name, replaces_id |-> replaces_id,
     app_icon |-> app_icon, summary |-> summary, body |-> body,
     actions |-> actions, hints |-> hints,
     expire_timeout |-> expire_timeout]

\* send_notification calling notify before it checks the timeout
send_notification_unchecked(suppress_sound, transient, urgency, replaces, summary, body, actions, category, expire_timeout) ==
    [early |-> NoReply,
     notify |-> << NotifyCall("", replaces, "", summary.str0, body.str0,
                              FlattenActions(actions), Hints(urgency),
                              expire_timeout) >>]

\* send_notification up to its await: the value it returns at once (early,
\* NoReply when it does not) and the notify calls it makes
send_notification(suppress_sound, transient, urgency, replaces, summary, body, actions, category, expire_timeout) ==
    IF TimeoutUnsupported(expire_timeout)
    THEN [early |-> ErrZbus("Unsupported"), notify |-> << >>]
    ELSE LET application_name == ""
             icon == ""
             flat == FlattenActions(actions)
             hints == Hints(urgency)
         IN  [early |-> NoReply,
              notify |-> << NotifyCall(application_name, replaces, icon,
                                       summary.str0, body.str0, flat, hints,
                                       expire_timeout) >>]

(***************************************************************************)
(* The calls of send_notification that are explored.  The caller holds     *)
(* plain text and wraps it with TrustedStr::new when it calls.             *)
(***************************************************************************)
\* the longest actions sequence
MaxActions == 2

Texts == {"", "Build <b>done</b>"}
ActionTexts == {"default", "Open"}
ActionLists == UNION {[1..n -> ActionTexts] : n \in 0..MaxActions}
Urgencies == {None("Low"), Some("Low"), Some("Normal"), Some("Critical")}
Categories == {None(""), Some("im.received")}
Timeouts == {I32Min, -2, -1, 0, 1, I32Max}
ReplaceIds == {0, 7, I32Max}

SendArgs ==
    [suppress_sound : BOOLEAN, transient : BOOLEAN, urgency : Urgencies,
     replaces : ReplaceIds, summary : Texts, body : Texts,
     actions : ActionLists, category : Categories,
     expire_timeout : Timeouts]

DefaultSend ==
    [suppress_sound |-> FALSE, transient |-> FALSE, urgency |-> None("Low"),
     replaces |-> 0, summary |-> "", body |-> "", actions |-> << >>,
     category |-> None(""), expire_timeout |-> -1]

\* what the transport may answer: a notification id or an error
Replies ==
    {OkId(1), OkId(I32Max), ErrZbus("Unsupported"), ErrZbus("InputOutput")}

WrapAll(texts) == [i \in 1..Len(texts) |-> TrustedStr_new(texts[i])]

WrapOption(o) == [some |-> o.some, v |-> TrustedStr_new(o.v)]

\* the caller runs send_notification up to its return or its await
SendNotification ==
    /\ pc = "start"
    /\ LET r == send_notification(req.suppress_sound, req.transient,
                                  req.urgency, req.replaces,
                                  TrustedStr_new(req.summary),
                                  TrustedStr_new(req.body),
                                  WrapAll(req.actions),
                                  WrapOption(req.category),
                                  req.expire_timeout)
       IN  /\ notified' = notified \o r.notify
           /\ IF r.notify = << >>
              THEN pc' = "done" /\ ret' = r.early
              ELSE pc' = "awaiting" /\ ret' = ret
    /\ UNCHANGED <<img, imgpc, imgret, req, reply>>

\* the transport answers and send_notification returns the answer
NotifyReturns ==
    /\ pc = "awaiting"
    /\ \E answer \in Replies :
          /\ reply' = answer
          /\ ret' = answer
    /\ pc' = "done"
    /\ UNCHANGED <<img, imgpc, imgret, req, notified>>

(***************************************************************************)
(* The calls of serialize_image that are explored.                         *)
(***************************************************************************)
NoResult == [kind |-> "None", err |-> "", value |-> NoValue, arith |-> << >>]

\* the small widths and heights that are all explored
SmallDim == 2

\* widths and heights of images that can be accepted
GoodDims == (1..SmallDim) \cup {10, MAX_WIDTH}

\* widths and heights: both ends of i32, around 1 and around MAX_WIDTH
Dims == {I32Min, 0, MAX_WIDTH + 1, I32Max} \cup GoodDims

\* row strides of tightly packed rows: width * channels
PackedStrides == {w * c : w \in GoodDims, c \in {3, 4}}

\* row strides: both ends of i32, around 3, a stride too small for width 10
Strides == {I32Min, 2, 20, I32Max} \cup PackedStrides

\* buffer lengths: height * rowstride for the packed geometries, lengths
\* short of them, both sides of MAX_SIZE, 2^31, and 2^32 + 300
Lengths ==
    {ToUsize(h * rs) : h \in GoodDims, rs \in PackedStrides}
    \cup {ToUsize(0), ToUsize(250), ToUsize(299), ToUsize(MAX_SIZE),
          ToUsize(MAX_SIZE + 1), Usize(32768, 0), Usize(65536, 300)}

Buffers == [len : Lengths, tag : {"p", "q"}]

ImageArgs ==
    [width : Dims, height : Dims, rowstride : Strides, has_alpha : BOOLEAN,
     bits_per_sample : {8, 16}, channels : {2, 3, 4}, data : Buffers]

DefaultImage ==
    [width |-> 1, height |-> 1, rowstride |-> 3, has_alpha |-> FALSE,
     bits_per_sample |-> 8, channels |-> 3,
     data |-> [len |-> ToUsize(3), tag |-> "p"]]

\* the caller runs serialize_image on its arguments
SerializeImage ==
    /\ imgpc = "start"
    /\ imgret' = serialize_image(img.width, img.height, img.rowstride,
                                 img.has_alpha, img.bits_per_sample,
                                 img.channels, img.data)
    /\ imgpc' = "done"
    /\ UNCHANGED <<img, req, pc, notified, reply, ret>>

InitImage ==
    /\ img \in ImageArgs
    /\ imgpc = "start"
    /\ imgret = NoResult
    /\ req = DefaultSend
    /\ pc = "start"
    /\ notified = << >>
    /\ reply = NoReply
    /\ ret = NoReply

NextImage == SerializeImage

SpecImage == InitImage /\ [][NextImage]_vars

InitSend ==
    /\ img = DefaultImage
    /\ imgpc = "start"
    /\ imgret = NoResult
    /\ req \in SendArgs
    /\ pc = "start"
    /\ notified = << >>
    /\ reply = NoReply
    /\ ret = NoReply

NextSend == SendNotification \/ NotifyReturns

SpecSend == InitSend /\ [][NextSend]_vars

(***************************************************************************)
(* Properties of serialize_image.                                          *)
(***************************************************************************)
Returned == imgpc = "done"
Accepted == imgpc = "done" /\ imgret.kind = "Ok"

\* the rejection reasons, under the names of the specification
GeometryTooSmall == "Too small width, height, or stride"
PayloadTooLarge == "Too much data"
UnsupportedSampleDepth == "Wrong number of bits per sample"
ChannelCountMismatch == "Wrong number of channels"
DimensionTooLarge == "Width or height too large"
BufferTooSmallForHeight == "Image too large"
RowStrideTooSmallForWidth == "Row stride too small"

Reasons ==
    << GeometryTooSmall, PayloadTooLarge, UnsupportedSampleDepth,
       ChannelCountMismatch, DimensionTooLarge, BufferTooSmallForHeight,
       RowStrideTooSmallForWidth >>

TwoMiB == ToUsize(2^21)

\* n is a value of the 32-bit signed range
InI32(n) == -2147483647 - 1 <= n /\ n <= 2147483647

\* a buffer length is below 2^31 exactly when its high limb is below 2^15
UsizeFitsI32(u) == u.hi < 32768

\* the number of bytes of a buffer length below 2^31
Bytes(u) == u.hi * Limb + u.lo

\* C1: every descriptor that serialize_image accepts has 1 <= width <= 255,
\* 1 <= height <= 255, rowStride >= 3, bitsPerSample = 8,
\* channels = 3 + hasAlpha, at most 2^21 bytes of data,
\* height * rowStride <= data.length and width * channels <= rowStride, so
\* the last byte of the last pixel of the last row lies inside the data.
C1_AcceptedDescriptorIsInBounds ==
    Accepted =>
        LET width == imgret.value[1]
            height == imgret.value[2]
            rowStride == imgret.value[3]
            hasAlpha == imgret.value[4]
            bitsPerSample == imgret.value[5]
            channels == imgret.value[6]
            data == imgret.value[7]
        IN  /\ 1 <= width /\ width <= 255
            /\ 1 <= height /\ height <= 255
            /\ rowStride >= 3
            /\ bitsPerSample = 8
            /\ channels = 3 + (IF hasAlpha THEN 1 ELSE 0)
            /\ ~UsizeGt(data.len, TwoMiB)
            /\ rowStride <= Bytes(data.len)
            /\ height * rowStride <= Bytes(data.len)
            /\ width * channels <= rowStride
            /\ (height - 1) * rowStride + (width - 1) * channels + channels
                   <= Bytes(data.len)

\* an accepted image with padded rows and spare bytes after the last row
C1_Witness ==
    /\ Accepted
    /\ imgret.value[1] = 10 /\ imgret.value[2] = 10
    /\ imgret.value[3] = 40 /\ imgret.value[6] = 3
    /\ Bytes(imgret.value[7].len) > 400

\* the first of the seven checks, in the order of the specification, that the
\* arguments fail; 0 when they pass all seven
FirstFailingCheck(a) ==
    IF a.width < 1 \/ a.height < 1 \/ a.rowstride < 3 THEN 1
    ELSE IF UsizeGt(a.data.len, TwoMiB) THEN 2
    ELSE IF a.bits_per_sample # 8 THEN 3
    ELSE IF a.channels # 3 + (IF a.has_alpha THEN 1 ELSE 0) THEN 4
    ELSE IF a.width > 255 \/ a.height > 255 THEN 5
    ELSE IF Bytes(a.data.len) \div a.height < a.rowstride THEN 6
    ELSE IF a.rowstride \div a.channels < a.width THEN 7
    ELSE 0

\* C2: serialize_image returns the reason of the first failing check, in the
\* order GeometryTooSmall, PayloadTooLarge, UnsupportedSampleDepth,
\* ChannelCountMismatch, DimensionTooLarge, BufferTooSmallForHeight,
\* RowStrideTooSmallForWidth; the seven reasons are pairwise distinct; the
\* call succeeds exactly when no check fails (and never panics).
C2_FirstFailingCheckDecides ==
    Returned =>
        /\ Cardinality({Reasons[i] : i \in 1..7}) = 7
        /\ LET k == FirstFailingCheck(img)
           IN  IF k = 0 THEN imgret.kind = "Ok"
               ELSE imgret.kind = "Err" /\ imgret.err = Reasons[k]

\* the last check is the one that fails: width 10, 3 channels, stride 20
C2_Witness ==
    /\ Returned
    /\ img.width = 10 /\ img.channels = 3 /\ img.rowstride = 20
    /\ imgret.err = RowStrideTooSmallForWidth

OverTwoMiB == ToUsize(2^21 + 1)

\* C3 as stated: a buffer of 2^21 + 1 bytes is rejected as PayloadTooLarge
\* for every width, height and rowStride.
C3_AsStated ==
    (Returned /\ img.data.len = OverTwoMiB) =>
        (imgret.kind = "Err" /\ imgret.err = PayloadTooLarge)

\* C3 amended: a buffer of 2^21 + 1 bytes is always rejected; the reason is
\* PayloadTooLarge when width >= 1, height >= 1 and rowStride >= 3, and
\* GeometryTooSmall otherwise.
C3_OversizeAlwaysRejected ==
    (Returned /\ img.data.len = OverTwoMiB) =>
        /\ imgret.kind = "Err"
        /\ imgret.err = IF img.width >= 1 /\ img.height >= 1
                           /\ img.rowstride >= 3
                        THEN PayloadTooLarge ELSE GeometryTooSmall

\* an otherwise valid image with 2^21 + 1 bytes of data, rejected
C3_Witness ==
    /\ Returned
    /\ img.data.len = OverTwoMiB
    /\ img.width = 1 /\ img.height = 1 /\ img.rowstride = 3
    /\ img.bits_per_sample = 8 /\ img.channels = 3 /\ ~img.has_alpha
    /\ imgret.err = PayloadTooLarge

\* the arguments of the round-trip property: tightly packed 8-bit image
Packed(a) ==
    /\ a.width \in 1..255 /\ a.height \in 1..255
    /\ a.channels \in {3, 4}
    /\ a.has_alpha = (a.channels = 4)
    /\ a.rowstride = a.width * a.channels
    /\ a.bits_per_sample = 8
    /\ a.data.len = ToUsize(a.height * a.rowstride)

\* C4: a tightly packed 8-bit image of width and height in 1..255 with 3 or
\* 4 channels is accepted, and the descriptor returned has the width, height,
\* rowStride, hasAlpha, bitsPerSample, channels and data that were passed.
C4_PackedImageRoundTrips ==
    (Returned /\ Packed(img)) =>
        /\ imgret.kind = "Ok"
        /\ imgret.value = << img.width, img.height, img.rowstride,
                             img.has_alpha, img.bits_per_sample,
                             img.channels, img.data >>

\* the largest such image: 255 x 255 with alpha
C4_Witness ==
    /\ Returned /\ Packed(img)
    /\ img.width = 255 /\ img.height = 255 /\ img.channels = 4
    /\ imgret.kind = "Ok"

\* C5: every division that serialize_image evaluates has a divisor >= 1
\* (the height for the first, the channel count >= 3 for the second), the
\* cast of the data length to i32 keeps its value, every operand and result
\* is in the i32 range, and no step panics.
C5_ArithmeticIsSafe ==
    Returned =>
        /\ imgret.kind # "Panic"
        /\ \A i \in DOMAIN imgret.arith :
              LET s == imgret.arith[i]
              IN  /\ s.op = "cast" =>
                         UsizeFitsI32(s.wide) /\ s.x = Bytes(s.wide)
                  /\ s.op = "div" =>
                         /\ s.y >= 1
                         /\ InI32(s.x)
                         /\ i = 3 => s.y = img.height
                         /\ i = 4 => s.y >= 3
                  /\ s.op = "add" => InI32(s.x + s.y)

\* both divisions were evaluated, on a buffer of exactly 2 MiB
C5_Witness ==
    /\ Returned
    /\ img.data.len = TwoMiB
    /\ Len(imgret.arith) = 4
    /\ imgret.arith[3].op = "div" /\ imgret.arith[4].op = "div"

(***************************************************************************)
(* Properties of send_notification.                                        *)
(***************************************************************************)
Started == pc # "start"
UnsupportedTimeout == ErrZbus("Unsupported")

\* C6: with expireTimeoutMillis < -1 send_notification returns the
\* UnsupportedTimeout rejection; with -1 or a value >= 0 it is not rejected
\* by this layer: the request reaches the transport with that same timeout,
\* and what is returned is the transport's answer.
C6_TimeoutCheck ==
    Started =>
        IF req.expire_timeout < -1
        THEN pc = "done" /\ ret = UnsupportedTimeout /\ reply = NoReply
        ELSE /\ Len(notified) >= 1
             /\ notified[1].expire_timeout = req.expire_timeout
             /\ pc = "done" => (ret = reply /\ reply \in Replies)

\* the server-default timeout -1 reached the transport and was answered
C6_Witness ==
    /\ pc = "done"
    /\ req.expire_timeout = -1
    /\ Len(notified) = 1 /\ notified[1].expire_timeout = -1
    /\ ret.kind = "Ok"

\* C7: notify is invoked at most once per send_notification; a request that
\* fails the timeout check causes no transport call, an accepted one exactly
\* one; the transport's answer (id or error) is returned unchanged.
C7_AtMostOneNotify ==
    /\ Len(notified) <= 1
    /\ pc = "start" => notified = << >>
    /\ Started =>
          IF req.expire_timeout < -1
          THEN notified = << >> /\ reply = NoReply
          ELSE Len(notified) = 1
    /\ pc = "awaiting" => (ret = NoReply /\ reply = NoReply)
    /\ (pc = "done" /\ notified # << >>) => (ret = reply /\ reply \in Replies)

\* a transport error came back from the single call and was returned as is
C7_Witness ==
    /\ pc = "done"
    /\ Len(notified) = 1
    /\ reply = ErrZbus("InputOutput")
    /\ ret = ErrZbus("InputOutput")

\* the numeric codes of the urgency levels
WireCode(u) == IF u = "Low" THEN 0 ELSE IF u = "Normal" THEN 1 ELSE 2

\* C8: in every request handed to the transport, the hints map has exactly
\* one entry when urgency is present, key "urgency" with the unsigned 8-bit
\* value Low=0, Normal=1, Critical=2, and no entry when urgency is absent.
C8_OnlyUrgencyHint ==
    \A i \in DOMAIN notified :
        LET hints == notified[i].hints
        IN  IF req.urgency.some
            THEN /\ DOMAIN hints = {"urgency"}
                 /\ hints["urgency"].type = "u8"
                 /\ hints["urgency"].v = WireCode(req.urgency.v)
                 /\ hints["urgency"].v \in 0..255
            ELSE DOMAIN hints = {}

\* a Critical request reached the transport with the hint urgency = 2
C8_Witness ==
    /\ Len(notified) = 1
    /\ req.urgency = Some("Critical")
    /\ notified[1].hints["urgency"] = U8Value(2)

\* C10: in every request handed to the transport, application name and icon
\* are empty, replaces-id is the caller's, summary and body are the texts the
\* caller wrapped with TrustedStr::new (inner(new(s)) = s), and the actions
\* have the caller's length, elements and order.
C10_FieldsForwardedUnaltered ==
    \A i \in DOMAIN notified :
        LET call == notified[i]
        IN  /\ call.app_name = "" /\ call.app_icon = ""
            /\ call.replaces_id = req.replaces
            /\ call.summary = req.summary
            /\ call.body = req.body
            /\ TrustedStr_inner(TrustedStr_new(req.summary)) = req.summary
            /\ Len(call.actions) = Len(req.actions)
            /\ \A k \in 1..Len(req.actions) : call.actions[k] = req.actions[k]

\* a request with text and two different actions reached the transport
C10_Witness ==
    /\ Len(notified) = 1
    /\ req.summary # "" /\ req.body # ""
    /\ req.actions = << "default", "Open" >>
    /\ req.replaces = 7
    /\ notified[1].actions = << "default", "Open" >>

====
